---- MODULE Spec2Model ----
(***************************************************************************)
(* Model of src/trainers.py: the ReplayMemory ring buffer and the Trainer  *)
(* train/eval control loop with its two persisted artifacts.               *)
(*                                                                         *)
(* A frame stack (stack_size x 84 x 84 values) is represented by one       *)
(* representative pixel.  A float pixel is the exact rational n/d, kept as *)
(* the record [n |-> n, d |-> d]; a uint8 pixel is an integer in 0..255.   *)
(***************************************************************************)
EXTENDS Integers, Sequences, FiniteSets, TLC

VARIABLES
    memory,     \* the ReplayMemory object (self.memory of the Trainer)
    inserted,   \* history: the arguments of every add_sample call made on a
                \* ReplayMemory driven on its own, in call order
    op,         \* the ReplayMemory method called last ("none" before any call)
    ret,        \* what the last ReplayMemory call returned or raised
    config,     \* self.config, the configuration mapping
    args,       \* the args of the running process: resume and load given or not
    tr,         \* the Trainer's own fields and the locals of train() and its callees
    agent,      \* self.agent: its counters action_steps and learning_steps
    env,        \* self.env: the steps taken in the episode it is running
    disk,       \* the output directory: last_state.pt and checkpoint.pt
    loaded,     \* history: the snapshot load_state read in this process, if any
    trace,      \* history: episodes completed and files written by this process
    run         \* number of processes started so far

mvars == <<memory, inserted, op, ret>>
tvars == <<config, args, tr, agent, env, disk, loaded, trace, run>>
vars == <<memory, inserted, op, ret, config, args, tr, agent, env, disk, loaded,
          trace, run>>

----------------------------------------------------------------------------
(* Bounds of the model *)

\* largest capacity of a ReplayMemory exercised on its own
MaxMemSize == 3
\* largest denominator of the float pixels fed to the scaling round trip
ScaleDen == 40

\* number of add_sample calls exercised on a memory of capacity M
MaxAdds(M) == 2 * M
\* an environment episode signals done after at most this many steps
MaxEpisodeLen == 2
\* processes started one after the other on the same output directory
MaxRuns == 2

----------------------------------------------------------------------------
(* Numbers *)

Min(a, b) == IF a < b THEN a ELSE b

Rat(n, d) == [n |-> n, d |-> d]

\* a <= b for rationals with positive denominators
RatLeq(a, b) == a.n * b.d <= b.n * a.d

\* |a - b| <= c for rationals with positive denominators
RatNear(a, b, c) ==
    LET diff == a.n * b.d - b.n * a.d
        absd == IF diff < 0 THEN -diff ELSE diff
    IN  absd * c.d <= c.n * a.d * b.d

\* ndarray.astype(np.uint8) of the float n/d: the fraction is dropped (toward
\* zero) and the integer is kept modulo 2^8
AsUint8(x) ==
    LET t == IF x.n >= 0 THEN x.n \div x.d ELSE -((-x.n) \div x.d)
    IN  t % 256

----------------------------------------------------------------------------
(* ReplayMemory *)

\* ReplayMemory.__init__: zero-filled storage, ptr = filled = 0
ReplayMemory(memory_size) ==
    [ mem_size    |-> memory_size,
      ptr         |-> 0,
      filled      |-> 0,
      states      |-> [i \in 0..(memory_size - 1) |-> 0],
      next_states |-> [i \in 0..(memory_size - 1) |-> 0],
      actions     |-> [i \in 0..(memory_size - 1) |-> 0],
      rewards     |-> [i \in 0..(memory_size - 1) |-> 0],
      terminal    |-> [i \in 0..(memory_size - 1) |-> 0] ]

\* mutant: the frame scaled by 256, so that 1.0 wraps around to 0
ScaleToUint8By256(x) == AsUint8(Rat(x.n * 256, x.d))

\* (state * 255).astype(np.uint8)
ScaleToUint8(x) == AsUint8(Rat(x.n * 255, x.d))

\* ReplayMemory._insert_transform
insert_transform(state, action, next_state, reward, done) ==
    [ state      |-> ScaleToUint8(state),
      action     |-> action,
      next_state |-> ScaleToUint8(next_state),
      reward     |-> reward,
      done       |-> IF done THEN 1 ELSE 0 ]

\* the value an np.uint8 array keeps of an integer written into it
StoreUint8(v) == v % 256

\* mutant: filled counts every call, with no ceiling at mem_size
add_sample_uncapped(mem, state, action, next_state, reward, done) ==
    LET t == insert_transform(state, action, next_state, reward, done)
    IN  [ mem EXCEPT
            !.states[mem.ptr]      = t.state,
            !.next_states[mem.ptr] = t.next_state,
            !.actions[mem.ptr]     = StoreUint8(t.action),
            !.rewards[mem.ptr]     = t.reward,
            !.terminal[mem.ptr]    = StoreUint8(t.done),
            !.ptr                  = (mem.ptr + 1) % mem.mem_size,
            !.filled               = mem.filled + 1 ]

\* mutant: filled counts two entries for each call
add_sample_overcount(mem, state, action, next_state, reward, done) ==
    LET t == insert_transform(state, action, next_state, reward, done)
    IN  [ mem EXCEPT
            !.states[mem.ptr]      = t.state,
            !.next_states[mem.ptr] = t.next_state,
            !.actions[mem.ptr]     = StoreUint8(t.action),
            !.rewards[mem.ptr]     = t.reward,
            !.terminal[mem.ptr]    = StoreUint8(t.done),
            !.ptr                  = (mem.ptr + 1) % mem.mem_size,
            !.filled               = Min(mem.filled + 2, mem.mem_size) ]

\* mutant: ptr is advanced before the last two fields are written
add_sample_split(mem, state, action, next_state, reward, done) ==
    LET t == insert_transform(state, action, next_state, reward, done)
        nxt == (mem.ptr + 1) % mem.mem_size
    IN  [ mem EXCEPT
            !.states[mem.ptr]      = t.state,
            !.next_states[mem.ptr] = t.next_state,
            !.actions[mem.ptr]     = StoreUint8(t.action),
            !.rewards[nxt]         = t.reward,
            !.terminal[nxt]        = StoreUint8(t.done),
            !.ptr                  = nxt,
            !.filled               = Min(mem.filled + 1, mem.mem_size) ]

\* ReplayMemory.add_sample: the object after the call
add_sample(mem, state, action, next_state, reward, done) ==
    LET t == insert_transform(state, action, next_state, reward, done)
    IN  [ mem EXCEPT
            !.states[mem.ptr]      = t.state,
            !.next_states[mem.ptr] = t.next_state,
            !.actions[mem.ptr]     = StoreUint8(t.action),
            !.rewards[mem.ptr]     = t.reward,
            !.terminal[mem.ptr]    = StoreUint8(t.done),
            !.ptr                  = (mem.ptr + 1) % mem.mem_size,
            !.filled               = Min(mem.filled + 1, mem.mem_size) ]

\* mutant: the draw made with replacement
ChoiceWithReplacement(n, size) == [1..size -> 0..(n - 1)]

\* np.random.choice(np.arange(n), size=size, replace=False): every draw it can make
Choice(n, size) ==
    { s \in [1..size -> 0..(n - 1)] :
        \A j, k \in 1..size : j # k => s[j] # s[k] }

\* self.states[idx] / 255.0
ScaleToFloat(q) == Rat(q, 255)

NoCall == [name |-> "none", batch_size |-> 0]

NoBatch == [ kind |-> "none", idx |-> <<>>, state |-> <<>>, action |-> <<>>,
             next_state |-> <<>>, reward |-> <<>>, done |-> <<>> ]

\* the five arrays get_batch gathers at the drawn indices
Gather(mem, idx) ==
    [ kind       |-> "batch",
      idx        |-> idx,
      state      |-> [j \in DOMAIN idx |-> ScaleToFloat(mem.states[idx[j]])],
      action     |-> [j \in DOMAIN idx |-> mem.actions[idx[j]]],
      next_state |-> [j \in DOMAIN idx |-> ScaleToFloat(mem.next_states[idx[j]])],
      reward     |-> [j \in DOMAIN idx |-> mem.rewards[idx[j]]],
      done       |-> [j \in DOMAIN idx |-> mem.terminal[idx[j]]] ]

\* mutant: the sampled entries are consumed
AfterGetBatchConsuming(mem) == [mem EXCEPT !.filled = IF @ > 0 THEN @ - 1 ELSE 0]

\* the object get_batch leaves behind: no field of self is assigned
AfterGetBatch(mem) == mem

\* mutant: the assertion is batch_size <= filled
get_batch_nonstrict(mem, batch_size) ==
    IF ~(batch_size <= mem.filled)
    THEN { [ mem |-> mem, ret |-> [NoBatch EXCEPT !.kind = "AssertionError"] ] }
    ELSE { [ mem |-> mem, ret |-> Gather(mem, idx) ] :
             idx \in Choice(mem.filled, batch_size) }

\* ReplayMemory.get_batch: every outcome of one call, as the object after the
\* call and what the call returned ("AssertionError": the assert raised)
get_batch(mem, batch_size) ==
    IF ~(batch_size < mem.filled)
    THEN { [ mem |-> AfterGetBatch(mem),
             ret |-> [NoBatch EXCEPT !.kind = "AssertionError"] ] }
    ELSE { [ mem |-> AfterGetBatch(mem), ret |-> Gather(mem, idx) ] :
             idx \in Choice(mem.filled, batch_size) }

----------------------------------------------------------------------------
(* Trainer: configuration, collaborators, persisted artifacts *)

BaseConfig ==
    [ memory_size             |-> 3,
      batch_size              |-> 1,
      memory_init_steps       |-> 2,
      learning_interval       |-> 1,
      train_epochs            |-> 2,
      episodes_per_epoch      |-> 1,
      eval_every              |-> 1,
      eval_episodes_per_epoch |-> 1 ]

SmallConfig == [BaseConfig EXCEPT !.memory_size = 2, !.memory_init_steps = 1]

\* the configurations exercised over several processes
ResumeConfigs == { SmallConfig, [SmallConfig EXCEPT !.train_epochs = 3] }

\* the configurations exercised
Configs ==
    ResumeConfigs \cup
    { BaseConfig,
      [BaseConfig EXCEPT !.learning_interval = 2],
      [BaseConfig EXCEPT !.eval_every = 2, !.episodes_per_epoch = 2],
      [SmallConfig EXCEPT !.eval_episodes_per_epoch = 2],
      [BaseConfig EXCEPT !.batch_size = 2, !.memory_init_steps = 1] }

\* env.action_space
Actions == {0, 1}
\* what an environment step can give: the observation (one uint8 pixel), the
\* reward and the terminal flag
StepOutcomes ==
    { [frames |-> 255, reward |-> 1, done |-> FALSE],
      [frames |-> 255, reward |-> 1, done |-> TRUE],
      [frames |-> 0,   reward |-> 0, done |-> TRUE] }
\* the observation of a freshly reset environment
ResetFrames == {0}

RECURSIVE SumSeq(_)
\* sum(losses)
SumSeq(q) == IF q = <<>> THEN 0 ELSE q[1] + SumSeq(Tail(q))

\* a > b for rationals with positive denominators
RatGreater(a, b) == a.n * b.d > b.n * a.d

\* Trainer.process_state: the uint8 frames divided by 255.0
process_state(frames) == Rat(frames, 255)

\* env.reset(): the environment after it and every observation it can return
EnvReset == { [env |-> [t |-> 0], frames |-> f] : f \in ResetFrames }

\* env.step(action): every outcome; done is signalled at the latest on step
\* MaxEpisodeLen of an episode, and ends the episode
EnvStep(e) ==
    { [env |-> [t |-> IF o.done THEN 0 ELSE e.t + 1], frames |-> o.frames,
       reward |-> o.reward, done |-> o.done] :
        o \in { x \in StepOutcomes : x.done \/ e.t + 1 < MaxEpisodeLen } }

\* agents.DoubleDQN(...): a new agent
NewAgent == [action_steps |-> 0, learning_steps |-> 0]

\* agent.select_action(state, train): the agent after the call; it counts the
\* actions it selects in training mode
select_action(a, train) ==
    IF train THEN [a EXCEPT !.action_steps = @ + 1] ELSE a

\* the action the agent's policy selects for an observation
Policy(state) == IF state.n > 0 THEN 1 ELSE 0

\* agent.learn_from_memory(batch): the loss of the agent's next update
learn_from_memory(a) == 1 + 2 * (a.learning_steps % 2)

\* the Trainer fields and locals while no process runs
Idle ==
    [ pc |-> "off", error |-> "none", best_return |-> Rat(0, 1), start_epoch |-> 1,
      fn |-> "none", state |-> Rat(0, 255), step |-> 0, epoch |-> 0, episode |-> 0,
      episode_finished |-> FALSE, total_reward |-> 0, losses |-> <<>>,
      metrics |-> <<>>, val_sum |-> 0 ]

NoArgs == [resume |-> FALSE, load |-> FALSE]

\* the output directory before anything is written: last_state.pt and
\* checkpoint.pt are absent; checkpoint_return is history, not a file: the
\* evaluation average of the agent that checkpoint.pt holds
EmptyDir == [last_state |-> <<>>, checkpoint |-> <<>>, checkpoint_return |-> <<>>]

\* the trainer part of the state while ReplayMemory is driven on its own
NoTrainer ==
    /\ config = BaseConfig
    /\ args = NoArgs
    /\ tr = Idle
    /\ agent = NewAgent
    /\ env = [t |-> 0]
    /\ disk = EmptyDir
    /\ loaded = <<>>
    /\ trace = <<>>
    /\ run = 0

\* the exception raised: the process ends
Raise(t, exc) == [t EXCEPT !.pc = "failed", !.error = exc]

\* mutant: the snapshot is labelled with the epoch that comes next
save_state_next_epoch(d, epoch, a, mem, best_return) ==
    [ d EXCEPT !.last_state =
        << [epoch |-> epoch + 1, agent |-> a, memory |-> mem,
            best_return |-> best_return] >> ]

\* Trainer.save_state: the directory after torch.save(state, last_state.pt)
save_state(d, epoch, a, mem, best_return) ==
    [ d EXCEPT !.last_state =
        << [epoch |-> epoch, agent |-> a, memory |-> mem,
            best_return |-> best_return] >> ]

\* Trainer.save_checkpoint: the directory after torch.save(agent, checkpoint.pt)
save_checkpoint(d, a) == [d EXCEPT !.checkpoint = <<a>>]

\* Trainer.__init__ up to the resume/load branches: a fresh trainer
FreshTrainer == [Idle EXCEPT !.pc = "ready", !.best_return = Rat(0, 1), !.start_epoch = 1]

\* mutant: training resumes at the saved epoch itself
load_state_same_epoch(st, d) ==
    IF d.last_state # <<>>
    THEN LET state == d.last_state[1]
         IN  [ tr     |-> [st.tr EXCEPT !.best_return = state.best_return,
                                        !.start_epoch = state.epoch],
               agent  |-> state.agent,
               memory |-> state.memory,
               loaded |-> <<state>> ]
    ELSE [st EXCEPT !.tr = Raise(st.tr, "FileNotFoundError")]

\* Trainer.load_state: the trainer, agent and memory after the call
load_state(st, d) ==
    IF d.last_state # <<>>
    THEN LET state == d.last_state[1]
         IN  [ tr     |-> [st.tr EXCEPT !.best_return = state.best_return,
                                        !.start_epoch = state.epoch + 1],
               agent  |-> state.agent,
               memory |-> state.memory,
               loaded |-> <<state>> ]
    ELSE [st EXCEPT !.tr = Raise(st.tr, "FileNotFoundError")]

\* mutant: a missing checkpoint file is passed over
load_checkpoint_lenient(st, d) ==
    IF d.checkpoint # <<>>
    THEN [st EXCEPT !.agent = d.checkpoint[1]]
    ELSE st

\* Trainer.load_checkpoint: the trainer, agent and memory after the call
load_checkpoint(st, d) ==
    IF d.checkpoint # <<>>
    THEN [st EXCEPT !.agent = d.checkpoint[1]]
    ELSE [st EXCEPT !.tr = Raise(st.tr, "FileNotFoundError")]

\* Trainer.__init__: the objects a process holds once construction returned
\* or raised
Construct(cfg, a, d) ==
    LET s0 == [ tr |-> FreshTrainer, agent |-> NewAgent,
                memory |-> ReplayMemory(cfg.memory_size), loaded |-> <<>> ]
        s1 == IF a.resume THEN load_state(s0, d) ELSE s0
        s2 == IF s1.tr.pc # "failed" /\ a.load THEN load_checkpoint(s1, d) ELSE s1
    IN  s2

----------------------------------------------------------------------------
(* Trainer: one process after the other on the same output directory *)

Event(ev, epoch, val) == [ev |-> ev, epoch |-> epoch, val |-> val]

Init ==
    /\ config \in Configs
    /\ memory = ReplayMemory(config.memory_size)
    /\ inserted = <<>>
    /\ op = NoCall
    /\ ret = NoBatch
    /\ args = NoArgs
    /\ tr = Idle
    /\ agent = NewAgent
    /\ env = [t |-> 0]
    /\ disk = EmptyDir
    /\ loaded = <<>>
    /\ trace = <<>>
    /\ run = 0

\* a process is started with the arguments a and runs Trainer.__init__
Launch(a) ==
    /\ LET c == Construct(config, a, disk)
       IN  /\ tr' = c.tr
           /\ agent' = c.agent
           /\ memory' = c.memory
           /\ loaded' = c.loaded
    /\ args' = a
    /\ run' = run + 1
    /\ trace' = <<>>
    /\ env' = [t |-> 0]
    /\ inserted' = <<>>
    /\ op' = NoCall
    /\ ret' = NoBatch
    /\ UNCHANGED <<config, disk>>

\* the first process, on an empty output directory
Start ==
    /\ tr.pc = "off"
    /\ \E a \in [resume : BOOLEAN, load : BOOLEAN] : Launch(a)

\* once a process has ended, another one is started with the output directory
\* as its resume argument, and possibly as its load argument too (a process
\* given the load argument alone is a first process with another agent: Start
\* covers its arguments, on the empty directory)
Restart ==
    /\ tr.pc \in {"done", "failed"}
    /\ run < MaxRuns
    /\ \E a \in [resume : BOOLEAN, load : BOOLEAN] :
         /\ a.resume
         /\ Launch(a)

\* Trainer.train up to the loop of initialize_memory
TrainBegin ==
    /\ tr.pc = "ready"
    /\ \E r \in EnvReset :
         /\ env' = r.env
         /\ tr' = [tr EXCEPT !.pc = "init", !.fn = "initialize_memory",
                             !.state = process_state(r.frames), !.step = 0]
    /\ UNCHANGED <<mvars, config, args, agent, disk, loaded, trace, run>>

\* mutant: the running observation is that of a reset after every step
running_state_reset(done, next_state, fresh) == fresh

\* state = next_state if not done else self.process_state(self.env.reset())
running_state(done, next_state, fresh) == IF done THEN fresh ELSE next_state

\* mutant: the update of initialize_memory fires on the cadence alone
init_learns_unguarded(step, mem, cfg) == step % cfg.learning_interval = 0

\* step % learning_interval == 0 and (self.memory.filled > self.batch_size)
init_learns(step, mem, cfg) ==
    /\ step % cfg.learning_interval = 0
    /\ mem.filled > cfg.batch_size

\* one iteration of the loop of Trainer.initialize_memory
InitStep ==
    /\ tr.pc = "init"
    /\ tr.step < config.memory_init_steps
    /\ \E action \in Actions, o \in EnvStep(env), r \in EnvReset :
         LET next_state == process_state(o.frames)
             mem1 == add_sample(memory, tr.state, action, next_state, o.reward, o.done)
             learn == init_learns(tr.step, mem1, config)
         IN  /\ env' = IF o.done THEN r.env ELSE o.env
             /\ IF learn
                THEN \E res \in get_batch(mem1, config.batch_size) :
                        /\ memory' = res.mem
                        /\ op' = [name |-> "get_batch", batch_size |-> config.batch_size]
                        /\ ret' = [NoBatch EXCEPT !.kind = res.ret.kind]
                        /\ IF res.ret.kind = "batch"
                           THEN /\ agent' = [agent EXCEPT !.learning_steps = @ + 1]
                                /\ tr' = [tr EXCEPT
                                            !.state = running_state(o.done, next_state,
                                                         process_state(r.frames)),
                                            !.step = @ + 1]
                           ELSE /\ agent' = agent
                                /\ tr' = Raise(tr, res.ret.kind)
                ELSE /\ memory' = mem1
                     /\ op' = [name |-> "add_sample", batch_size |-> 0]
                     /\ ret' = NoBatch
                     /\ agent' = agent
                     /\ tr' = [tr EXCEPT
                                 !.state = running_state(o.done, next_state,
                                              process_state(r.frames)),
                                 !.step = @ + 1]
    /\ UNCHANGED <<inserted, config, args, disk, loaded, trace, run>>

\* initialize_memory returns and train enters its loop over the epochs
InitEnd ==
    /\ tr.pc = "init"
    /\ tr.step = config.memory_init_steps
    /\ tr' = [tr EXCEPT !.pc = "epoch", !.fn = "train", !.epoch = tr.start_epoch]
    /\ UNCHANGED <<mvars, config, args, agent, env, disk, loaded, trace, run>>

\* the head of the loop over range(start_epoch, train_epochs + 1)
EpochBegin ==
    /\ tr.pc = "epoch"
    /\ IF tr.epoch <= config.train_epochs
       THEN /\ tr' = [tr EXCEPT !.pc = "episodes", !.episode = 0]
            /\ trace' = Append(trace, Event("epoch", tr.epoch, Rat(0, 1)))
       ELSE /\ tr' = [tr EXCEPT !.pc = "done"]
            /\ trace' = trace
    /\ UNCHANGED <<mvars, config, args, agent, env, disk, loaded, run>>

\* Trainer.train_episode up to its loop
EpisodeBegin ==
    /\ tr.pc = "episodes"
    /\ tr.episode < config.episodes_per_epoch
    /\ \E r \in EnvReset :
         /\ env' = r.env
         /\ tr' = [tr EXCEPT !.pc = "train_step", !.fn = "train_episode",
                             !.episode_finished = FALSE, !.total_reward = 0,
                             !.losses = <<>>, !.metrics = <<>>,
                             !.state = process_state(r.frames)]
    /\ UNCHANGED <<mvars, config, args, agent, disk, loaded, trace, run>>

\* the dict train_episode returns, or the exception its return statement raises
TrainReturn(t) ==
    IF Len(t.losses) = 0
    THEN Raise(t, "ZeroDivisionError")
    ELSE [t EXCEPT !.pc = "episodes", !.episode = @ + 1,
                   !.metrics = << [ loss   |-> Rat(SumSeq(t.losses), Len(t.losses)),
                                    reward |-> t.total_reward ] >>]

\* one iteration of the loop of Trainer.train_episode and, once the episode
\* is finished, its return to the loop over the episodes
TrainStep ==
    /\ tr.pc = "train_step"
    /\ \E o \in EnvStep(env) :
         LET agent1 == select_action(agent, TRUE)
             action == Policy(tr.state)
             loss == learn_from_memory(agent1)
             next_state == process_state(o.frames)
             mem1 == add_sample(memory, tr.state, action, next_state, o.reward, o.done)
             t1 == [tr EXCEPT !.total_reward = @ + o.reward,
                              !.state = IF o.done THEN @ ELSE next_state,
                              !.episode_finished = o.done]
             learn == agent1.action_steps % config.learning_interval = 0
         IN  /\ env' = o.env
             /\ IF learn
                THEN \E res \in get_batch(mem1, config.batch_size) :
                        /\ memory' = res.mem
                        /\ op' = [name |-> "get_batch", batch_size |-> config.batch_size]
                        /\ ret' = [NoBatch EXCEPT !.kind = res.ret.kind]
                        /\ IF res.ret.kind = "batch"
                           THEN LET t2 == [t1 EXCEPT !.losses = Append(@, loss)]
                                IN  /\ agent' = [agent1 EXCEPT !.learning_steps = @ + 1]
                                    /\ tr' = IF o.done THEN TrainReturn(t2) ELSE t2
                                    /\ trace' = IF o.done /\ TrainReturn(t2).pc # "failed"
                                                THEN Append(trace,
                                                       Event("train_episode", tr.epoch, Rat(0, 1)))
                                                ELSE trace
                           ELSE /\ agent' = agent1
                                /\ tr' = Raise(t1, res.ret.kind)
                                /\ trace' = trace
                ELSE /\ memory' = mem1
                     /\ op' = [name |-> "add_sample", batch_size |-> 0]
                     /\ ret' = NoBatch
                     /\ agent' = agent1
                     /\ tr' = IF o.done THEN TrainReturn(t1) ELSE t1
                     /\ trace' = IF o.done /\ TrainReturn(t1).pc # "failed"
                                 THEN Append(trace,
                                        Event("train_episode", tr.epoch, Rat(0, 1)))
                                 ELSE trace
    /\ UNCHANGED <<inserted, config, args, disk, loaded, run>>

\* mutant: save_state(epoch) is called inside the loop over the episodes
SaveStateInLoop ==
    /\ tr.pc = "episodes"
    /\ tr.episode >= 1
    /\ tr.episode <= config.episodes_per_epoch
    /\ ~(\E k \in DOMAIN trace : /\ trace[k].ev = "save_state"
                                  /\ trace[k].epoch = tr.epoch
                                  /\ \A j \in (k + 1)..Len(trace) :
                                        trace[j].ev # "train_episode")
    /\ disk' = save_state(disk, tr.epoch, agent, memory, tr.best_return)
    /\ trace' = Append(trace, Event("save_state", tr.epoch, Rat(0, 1)))
    /\ tr' = IF tr.episode < config.episodes_per_epoch
             THEN tr
             ELSE IF tr.epoch % config.eval_every = 0
                  THEN [tr EXCEPT !.pc = "eval", !.episode = 0, !.val_sum = 0]
                  ELSE [tr EXCEPT !.pc = "epoch", !.epoch = @ + 1]
    /\ UNCHANGED <<mvars, config, args, agent, env, loaded, run>>

\* the episodes of the epoch are over: save_state(epoch), then the evaluation
\* pass if epoch % eval_every = 0, else the next epoch
SaveState ==
    /\ tr.pc = "episodes"
    /\ tr.episode = config.episodes_per_epoch
    /\ disk' = save_state(disk, tr.epoch, agent, memory, tr.best_return)
    /\ trace' = Append(trace, Event("save_state", tr.epoch, Rat(0, 1)))
    /\ tr' = IF tr.epoch % config.eval_every = 0
             THEN [tr EXCEPT !.pc = "eval", !.episode = 0, !.val_sum = 0]
             ELSE [tr EXCEPT !.pc = "epoch", !.epoch = @ + 1]
    /\ UNCHANGED <<mvars, config, args, agent, env, loaded, run>>

\* Trainer.eval_episode up to its loop
EvalEpisodeBegin ==
    /\ tr.pc = "eval"
    /\ tr.episode < config.eval_episodes_per_epoch
    /\ \E r \in EnvReset :
         /\ env' = r.env
         /\ tr' = [tr EXCEPT !.pc = "eval_step", !.fn = "eval_episode",
                             !.episode_finished = FALSE, !.total_reward = 0,
                             !.metrics = <<>>, !.state = process_state(r.frames)]
    /\ UNCHANGED <<mvars, config, args, agent, disk, loaded, trace, run>>

\* mutant: the evaluation selects its actions in training mode
eval_select_action_train(a) == select_action(a, TRUE)

\* self.agent.select_action(state, train=False) of eval_episode
eval_select_action(a) == select_action(a, FALSE)

\* one iteration of the loop of Trainer.eval_episode and, once the episode is
\* finished, its return to the loop over the evaluation episodes
EvalStep ==
    /\ tr.pc = "eval_step"
    /\ \E o \in EnvStep(env) :
         LET total == tr.total_reward + o.reward
             t1 == [tr EXCEPT !.total_reward = total,
                              !.state = IF o.done THEN @ ELSE process_state(o.frames),
                              !.episode_finished = o.done]
         IN  /\ agent' = eval_select_action(agent)
             /\ env' = o.env
             /\ tr' = IF o.done
                      THEN [t1 EXCEPT !.pc = "eval", !.episode = @ + 1,
                                      !.metrics = << [reward |-> total] >>,
                                      !.val_sum = @ + total]
                      ELSE t1
             /\ trace' = IF o.done
                         THEN Append(trace, Event("eval_episode", tr.epoch, Rat(0, 1)))
                         ELSE trace
    /\ UNCHANGED <<mvars, config, args, disk, loaded, run>>

\* mutant: a tie with best_return counts as an improvement
ImprovedOrTied(avg, best_return) == ~RatGreater(best_return, avg)

\* avg_metrics["reward"] > self.best_return
Improved(avg, best_return) == RatGreater(avg, best_return)

\* the evaluation pass is over: its average is logged and, if it improves on
\* best_return, kept and the agent written to checkpoint.pt
EvalEnd ==
    /\ tr.pc = "eval"
    /\ tr.episode = config.eval_episodes_per_epoch
    /\ LET avg == Rat(tr.val_sum, config.eval_episodes_per_epoch)
           t1 == [tr EXCEPT !.pc = "epoch", !.fn = "train", !.epoch = @ + 1]
       IN  IF Improved(avg, tr.best_return)
           THEN /\ tr' = [t1 EXCEPT !.best_return = avg]
                /\ disk' = [save_checkpoint(disk, agent) EXCEPT
                              !.checkpoint_return = <<avg>>]
                /\ trace' = trace \o << Event("eval_pass", tr.epoch, avg),
                                        Event("save_checkpoint", tr.epoch, avg) >>
           ELSE /\ tr' = t1
                /\ disk' = disk
                /\ trace' = Append(trace, Event("eval_pass", tr.epoch, avg))
    /\ UNCHANGED <<mvars, config, args, agent, env, loaded, run>>

\* the next call of the environment or of the agent raises: train() ends
Crash ==
    /\ \/ tr.pc \in {"ready", "train_step", "eval_step"}
       \/ tr.pc = "init" /\ tr.step < config.memory_init_steps
       \/ tr.pc = "episodes" /\ tr.episode < config.episodes_per_epoch
       \/ tr.pc = "eval" /\ tr.episode < config.eval_episodes_per_epoch
    /\ tr' = Raise(tr, "CollaboratorError")
    /\ UNCHANGED <<mvars, config, args, agent, env, disk, loaded, trace, run>>

Next ==
    \/ Start
    \/ TrainBegin
    \/ InitStep
    \/ InitEnd
    \/ EpochBegin
    \/ EpisodeBegin
    \/ TrainStep
    \/ SaveState
    \/ EvalEpisodeBegin
    \/ EvalStep
    \/ EvalEnd
    \/ Crash

Spec == Init /\ [][Next]_vars

\* train() with collaborators that never fail
NextNoCrash ==
    \/ Start
    \/ TrainBegin
    \/ InitStep
    \/ InitEnd
    \/ EpochBegin
    \/ EpisodeBegin
    \/ TrainStep
    \/ SaveState
    \/ EvalEpisodeBegin
    \/ EvalStep
    \/ EvalEnd

\* the process is not held up: the statement it is at gets executed (the
\* control flow is sequential and every call returns), and every environment
\* episode signals done
SpecLive == Init /\ [][NextNoCrash]_vars /\ WF_vars(NextNoCrash)

InitResume == Init /\ config \in ResumeConfigs

NextResume == Next \/ Restart

\* processes following one another on the same output directory
SpecResume == InitResume /\ [][NextResume]_vars

----------------------------------------------------------------------------
(* ReplayMemory driven on its own: any add_sample / get_batch sequence *)

\* transitions handed to add_sample, all five fields differing with the marker
Probe(m) ==
    [ state      |-> Rat(m, 2),
      action     |-> m,
      next_state |-> Rat(m + 1, 4),
      reward     |-> m + 10,
      done       |-> (m % 2 = 1) ]

Markers == 0..1

MemInit ==
    /\ memory \in { ReplayMemory(M) : M \in 1..MaxMemSize }
    /\ inserted = <<>>
    /\ op = NoCall
    /\ ret = NoBatch
    /\ NoTrainer

\* one add_sample call
MemAdd ==
    /\ Len(inserted) < MaxAdds(memory.mem_size)
    /\ \E m \in Markers :
         LET t == Probe(m)
         IN  /\ memory' = add_sample(memory, t.state, t.action, t.next_state,
                                     t.reward, t.done)
             /\ inserted' = Append(inserted, t)
    /\ op' = [name |-> "add_sample", batch_size |-> 0]
    /\ ret' = NoBatch
    /\ UNCHANGED tvars

\* one get_batch call, of any batch size, succeeding or raising
MemGet ==
    /\ \E b \in 0..(memory.mem_size + 1) :
         \E res \in get_batch(memory, b) :
            /\ memory' = res.mem
            /\ ret' = res.ret
            /\ op' = [name |-> "get_batch", batch_size |-> b]
    /\ UNCHANGED <<inserted, tvars>>

MemNext == MemAdd \/ MemGet

SpecMem == MemInit /\ [][MemNext]_vars

----------------------------------------------------------------------------
(* The scaling round trip on a grid of float pixels in [0,1] *)

\* n/ScaleDen and the 256 exact 8-bit levels n/255
ScaleGrid ==
    { Rat(n, ScaleDen) : n \in 0..ScaleDen } \cup { Rat(n, 255) : n \in 0..255 }

ScaleInit ==
    /\ memory = ReplayMemory(2)
    /\ inserted = <<>>
    /\ op = NoCall
    /\ ret = NoBatch
    /\ NoTrainer

ScaleAdd ==
    /\ Len(inserted) < 2
    /\ \E x \in ScaleGrid :
         LET t == [ state |-> x, action |-> 0, next_state |-> Rat(x.d - x.n, x.d),
                    reward |-> 0, done |-> FALSE ]
         IN  /\ memory' = add_sample(memory, t.state, t.action, t.next_state,
                                     t.reward, t.done)
             /\ inserted' = Append(inserted, t)
    /\ op' = [name |-> "add_sample", batch_size |-> 0]
    /\ ret' = NoBatch
    /\ UNCHANGED tvars

ScaleGet ==
    /\ \E res \in get_batch(memory, 1) :
         /\ memory' = res.mem
         /\ ret' = res.ret
    /\ op' = [name |-> "get_batch", batch_size |-> 1]
    /\ UNCHANGED <<inserted, tvars>>

ScaleNext == ScaleAdd \/ ScaleGet

SpecScale == ScaleInit /\ [][ScaleNext]_vars

----------------------------------------------------------------------------
(* Properties of ReplayMemory *)

\* number of add_sample calls made so far
NumAdds == Len(inserted)

\* C1 (ring invariant): after N add_sample calls on a memory of capacity M,
\* interleaved with any get_batch calls, filled = min(N, M) and ptr = N mod M,
\* so 0 <= ptr < M and 0 <= filled <= M; and no step decreases filled.
C1_RingInvariant ==
    /\ [] ( /\ memory.filled = Min(NumAdds, memory.mem_size)
            /\ memory.ptr = NumAdds % memory.mem_size
            /\ 0 <= memory.ptr /\ memory.ptr < memory.mem_size
            /\ 0 <= memory.filled /\ memory.filled <= memory.mem_size )
    /\ [][memory'.filled >= memory.filled]_vars

C1_Witness ==
    /\ NumAdds > memory.mem_size
    /\ memory.mem_size = 3
    /\ memory.ptr = 2
    /\ memory.filled = 3
    /\ op.name = "get_batch"

\* the five fields held at index i
Slot(mem, i) ==
    [ state      |-> mem.states[i],
      action     |-> mem.actions[i],
      next_state |-> mem.next_states[i],
      reward     |-> mem.rewards[i],
      done       |-> mem.terminal[i] ]

\* the five fields one add_sample call is to leave at its index
StoredForm(t) ==
    [ state      |-> AsUint8(Rat(t.state.n * 255, t.state.d)),
      action     |-> t.action % 256,
      next_state |-> AsUint8(Rat(t.next_state.n * 255, t.next_state.d)),
      reward     |-> t.reward,
      done       |-> IF t.done THEN 1 ELSE 0 ]

\* C2 (overwrite correctness): after M + k insertions, 0 <= k < M, index i holds
\* the (M+i)-th inserted transition for i in [0, k) and the i-th for i in [k, M)
\* (transitions counted from 0), all five fields from that one call.
C2_Overwrite ==
    LET M == memory.mem_size
        k == NumAdds - M
    IN  (0 <= k /\ k < M) =>
            \A i \in 0..(M - 1) :
                Slot(memory, i) =
                    StoredForm(inserted[(IF i < k THEN M + i ELSE i) + 1])

C2_Witness ==
    /\ memory.mem_size = 3
    /\ NumAdds = 5
    /\ inserted[1].action # inserted[4].action
    /\ inserted[2].action # inserted[5].action
    /\ Slot(memory, 0) = StoredForm(inserted[4])
    /\ Slot(memory, 1) = StoredForm(inserted[5])
    /\ Slot(memory, 2) = StoredForm(inserted[3])

\* C3 (sampling contract): get_batch(b) with b < filled returns exactly b
\* transitions gathered at b pairwise distinct indices in [0, filled), and
\* position j of each of the five arrays comes from the same buffer index.
C3_Sampling ==
    (op.name = "get_batch" /\ op.batch_size < memory.filled) =>
        /\ ret.kind = "batch"
        /\ Len(ret.idx) = op.batch_size
        /\ Len(ret.state) = op.batch_size
        /\ Len(ret.action) = op.batch_size
        /\ Len(ret.next_state) = op.batch_size
        /\ Len(ret.reward) = op.batch_size
        /\ Len(ret.done) = op.batch_size
        /\ \A j \in 1..op.batch_size :
              /\ ret.idx[j] \in 0..(memory.filled - 1)
              /\ \A h \in 1..op.batch_size : h # j => ret.idx[h] # ret.idx[j]
              /\ ret.state[j] = Rat(memory.states[ret.idx[j]], 255)
              /\ ret.action[j] = memory.actions[ret.idx[j]]
              /\ ret.next_state[j] = Rat(memory.next_states[ret.idx[j]], 255)
              /\ ret.reward[j] = memory.rewards[ret.idx[j]]
              /\ ret.done[j] = memory.terminal[ret.idx[j]]

C3_Witness ==
    /\ op.name = "get_batch"
    /\ op.batch_size = 2
    /\ memory.filled = 3
    /\ ret.kind = "batch"
    /\ ret.idx = <<2, 0>>
    /\ ret.action[1] # ret.action[2]

\* C4: get_batch(b) with b >= filled (b = filled and the empty buffer included)
\* raises and returns no batch; no call returns a batch of fewer than b entries.
C4_Insufficient ==
    op.name = "get_batch" =>
        /\ op.batch_size >= memory.filled =>
              /\ ret.kind = "AssertionError"
              /\ ret.state = <<>> /\ ret.action = <<>> /\ ret.next_state = <<>>
              /\ ret.reward = <<>> /\ ret.done = <<>>
        /\ ret.kind = "batch" => Len(ret.state) >= op.batch_size

C4_Witness ==
    /\ op.name = "get_batch"
    /\ memory.filled = 2
    /\ op.batch_size = memory.filled
    /\ ret.kind = "AssertionError"

\* C5: get_batch is read-only: over every call, raising or not, ptr, filled
\* and the five storage arrays are left as they were.
C5_ReadOnly ==
    [][op'.name = "get_batch" => memory' = memory]_vars

C5_Witness ==
    /\ op.name = "get_batch"
    /\ ret.kind = "batch"
    /\ Len(ret.idx) = 1
    /\ memory.filled = 2
    /\ memory.ptr = 2

\* the add_sample call (1-based) that wrote index i last, of N calls on capacity M
LastWrite(N, M, i) ==
    CHOOSE n \in 1..N :
        /\ (n - 1) % M = i
        /\ \A h \in 1..N : (h - 1) % M = i => h <= n

Zero == Rat(0, 1)
One == Rat(1, 1)

\* C6 (round-trip scaling): a frame value x in [0,1] passed to add_sample comes
\* back from get_batch in [0,1] and within 1/255 of x.
C6_RoundTrip ==
    ret.kind = "batch" =>
        \A j \in 1..Len(ret.idx) :
            LET t == inserted[LastWrite(NumAdds, memory.mem_size, ret.idx[j])]
            IN  /\ RatLeq(Zero, ret.state[j]) /\ RatLeq(ret.state[j], One)
                /\ RatNear(ret.state[j], t.state, Rat(1, 255))
                /\ RatLeq(Zero, ret.next_state[j]) /\ RatLeq(ret.next_state[j], One)
                /\ RatNear(ret.next_state[j], t.next_state, Rat(1, 255))

\* a value strictly between two 8-bit levels came back changed
C6_Witness ==
    /\ ret.kind = "batch"
    /\ Len(ret.idx) = 1
    /\ LET t == inserted[LastWrite(NumAdds, memory.mem_size, ret.idx[1])]
       IN  /\ t.state.d = ScaleDen
           /\ ret.state[1] # t.state
           /\ ~RatNear(ret.state[1], t.state, Rat(1, 512))

----------------------------------------------------------------------------
(* Properties of the Trainer *)

\* the events of one kind in the trace of the running process
Events(ev) == SelectSeq(trace, LAMBDA e : e.ev = ev)

\* the evaluation passes of this run of train(): r_i is ValPasses[i].val
ValPasses == Events("eval_pass")

\* checkpoint.pt was written at evaluation pass i
CheckpointAt(i) ==
    \E k \in DOMAIN trace : /\ trace[k].ev = "save_checkpoint"
                            /\ trace[k].epoch = ValPasses[i].epoch

\* best_return when train() started: 0, or what load_state read
InitialBest == IF loaded = <<>> THEN Rat(0, 1) ELSE loaded[1].best_return

\* C7 as stated (best-checkpoint monotonicity): the checkpoint is written at
\* pass i exactly when r_i exceeds every earlier r_j of the run; at pass 1
\* there is no earlier pass.
C7_AsStated ==
    \A i \in 1..Len(ValPasses) :
        CheckpointAt(i) <=>
            \A j \in 1..(i - 1) : RatGreater(ValPasses[i].val, ValPasses[j].val)

\* C7 amended: the checkpoint is written at pass i exactly when r_i exceeds
\* every earlier r_j of the run and the best_return train() started with
\* (0 for a new trainer, the snapshot's best_return for a resumed one).
C7_BestCheckpoint ==
    \A i \in 1..Len(ValPasses) :
        CheckpointAt(i) <=>
            /\ RatGreater(ValPasses[i].val, InitialBest)
            /\ \A j \in 1..(i - 1) : RatGreater(ValPasses[i].val, ValPasses[j].val)

\* pass 1 improves and is saved, pass 2 ties with it and is not
C7_Witness ==
    /\ Len(ValPasses) >= 2
    /\ CheckpointAt(1)
    /\ ValPasses[2].val = ValPasses[1].val
    /\ ~CheckpointAt(2)
    /\ disk.checkpoint # <<>>

\* C8 (resumability round trip): save_state(e) writes the trainer's epoch,
\* memory and best_return as they are; load_state on that directory then
\* yields that best_return, that memory (ptr, filled, contents) and
\* start_epoch = e + 1, and the first epoch the resumed train() runs is e + 1.
C8_RoundTrip ==
    /\ [][ Len(Events("save_state"))' > Len(Events("save_state")) =>
             /\ disk'.last_state # <<>>
             /\ disk'.last_state[1].epoch = tr.epoch
             /\ disk'.last_state[1].memory = memory
             /\ disk'.last_state[1].best_return = tr.best_return ]_vars
    /\ [] ( (tr.pc = "ready" /\ args.resume) =>
              /\ disk.last_state # <<>>
              /\ tr.best_return = disk.last_state[1].best_return
              /\ memory = disk.last_state[1].memory
              /\ tr.start_epoch = disk.last_state[1].epoch + 1 )
    /\ [] ( (loaded # <<>> /\ Len(Events("epoch")) > 0) =>
              Events("epoch")[1].epoch = loaded[1].epoch + 1 )

\* a resumed process whose memory and best_return come from the snapshot of
\* epoch 1 runs epoch 2 first
C8_Witness ==
    /\ args.resume
    /\ loaded # <<>>
    /\ loaded[1].epoch = 1
    /\ loaded[1].memory.filled = 2
    /\ loaded[1].memory.next_states[1] = 255
    /\ Len(Events("epoch")) = 1
    /\ tr.epoch = 2
    /\ tr.pc = "episodes"

\* the positions of the trace holding an event of one kind and epoch
Positions(ev, e) == { k \in DOMAIN trace : trace[k].ev = ev /\ trace[k].epoch = e }

\* C9 (per-epoch snapshot): for every epoch e from start_epoch on that train()
\* has completed, last_state.pt was written exactly once with epoch = e, after
\* all episodes_per_epoch training episodes of e and before any evaluation
\* episode of e; the epochs of successive snapshots increase by exactly 1.
C9_Snapshot ==
    /\ \A e \in tr.start_epoch..(tr.epoch - 1) :
          /\ Cardinality(Positions("save_state", e)) = 1
          /\ Cardinality(Positions("train_episode", e)) = config.episodes_per_epoch
          /\ \A k \in Positions("save_state", e) :
                /\ \A j \in Positions("train_episode", e) : j < k
                /\ \A j \in Positions("eval_episode", e) : k < j
    /\ \A i \in 1..(Len(Events("save_state")) - 1) :
          Events("save_state")[i + 1].epoch = Events("save_state")[i].epoch + 1
    /\ Len(Events("save_state")) > 0 =>
          /\ disk.last_state # <<>>
          /\ disk.last_state[1].epoch =
                Events("save_state")[Len(Events("save_state"))].epoch

\* two epochs of two training episodes each are completed, the second with an
\* evaluation pass that did not improve on best_return
C9_Witness ==
    /\ tr.pc = "done"
    /\ config.episodes_per_epoch = 2
    /\ config.eval_every = 2
    /\ Len(Events("save_state")) = 2
    /\ Len(Events("eval_pass")) = 1
    /\ Len(Events("save_checkpoint")) = 0

\* C10 as stated: a training episode in which no learning update fired
\* returns loss = 0 and reward = the sum of its step rewards; otherwise it
\* returns the mean of the losses of its learning updates.
C10_EpisodeReturn ==
    (tr.fn = "train_episode" /\ tr.episode_finished /\ tr.error # "AssertionError") =>
        /\ tr.metrics # <<>>
        /\ tr.metrics[1].reward = tr.total_reward
        /\ IF tr.losses = <<>>
           THEN tr.metrics[1].loss.n = 0
           ELSE tr.metrics[1].loss.n * Len(tr.losses) =
                    SumSeq(tr.losses) * tr.metrics[1].loss.d

\* C11: across any eval_episode call the replay memory (ptr, filled, contents)
\* and the agent's counters are unchanged: no step of eval_episode writes the
\* memory, calls get_batch or learn_from_memory (learning_steps is constant)
\* or selects an action in training mode (action_steps is constant).
InEvalEpisode == tr.pc = "eval_step" \/ tr'.pc = "eval_step"

C11_EvalFrame ==
    [][InEvalEpisode =>
          /\ memory' = memory
          /\ agent' = agent
          /\ op' = op
          /\ ret' = ret
          /\ inserted' = inserted]_vars

\* an evaluation episode has run to its end on a trained agent and a filled
\* memory
C11_Witness ==
    /\ tr.pc = "eval"
    /\ tr.episode >= 1
    /\ tr.metrics # <<>>
    /\ memory.filled >= 2
    /\ agent.learning_steps >= 1
    /\ agent.action_steps >= 1

\* C12: a process started with resume on a directory without last_state.pt, or
\* with load on a directory without checkpoint.pt, fails in Trainer.__init__
\* with FileNotFoundError (the MissingStateError / MissingCheckpointError of
\* the specification), and only then; at that point no environment step, memory
\* write, learning update or file write has been made, and the failed process
\* takes no further step (the only step from there starts another process).
StartupFailed(t) == t.pc = "failed" /\ t.error = "FileNotFoundError"

FileMissing(a, d) ==
    \/ a.resume /\ d.last_state = <<>>
    \/ a.load /\ d.checkpoint = <<>>

LastSaved ==
    LET saves == Events("save_state")
    IN  IF saves = <<>> THEN 0 ELSE saves[Len(saves)].epoch

EpisodesOf(e) ==
    Len(SelectSeq(trace, LAMBDA x : x.ev = "train_episode" /\ x.epoch = e))

C13_SnapshotIntact ==
    /\ [][ disk'.last_state # disk.last_state =>
              /\ Len(trace') = Len(trace) + 1
              /\ trace'[Len(trace')] = Event("save_state", tr.epoch, Rat(0, 1))
              /\ tr.episode = config.episodes_per_epoch
              /\ disk'.last_state = << [ epoch       |-> tr.epoch,
                                         agent       |-> agent,
                                         memory      |-> memory,
                                         best_return |-> tr.best_return ] >> ]_vars
    /\ [](tr.pc = "failed" =>
            IF LastSaved = 0
            THEN disk.last_state = <<>>
            ELSE /\ Len(disk.last_state) = 1
                 /\ disk.last_state[1].epoch = LastSaved
                 /\ EpisodesOf(LastSaved) = config.episodes_per_epoch
                 /\ tr.epoch \in {LastSaved, LastSaved + 1}
                 /\ disk.last_state[1].memory.mem_size = config.memory_size
                 /\ ~RatGreater(disk.last_state[1].best_return, tr.best_return))

\* train() failed in a training episode of epoch 2, after more transitions
\* were stored, with the snapshot of epoch 1 on disk
C13_Witness ==
    /\ tr.pc = "failed"
    /\ tr.error # "FileNotFoundError"
    /\ tr.fn = "train_episode"
    /\ tr.epoch = 2
    /\ disk.last_state # <<>>
    /\ disk.last_state[1].epoch = 1
    /\ memory # disk.last_state[1].memory

\* C14: after the memory initialization phase, every get_batch call of
\* train_episode succeeds (batch_size < filled holds at the call), whatever
\* the configuration: no training episode ends in the AssertionError of
\* get_batch.  (Stated as claimed; the model violates it.)
C14_TrainSamples ==
    ~(tr.pc = "failed" /\ tr.fn = "train_episode" /\ tr.error = "AssertionError")

\* C15: initialize_memory makes exactly memory_init_steps iterations, each
\* with one add_sample; at step s one learning update fires, after the
\* transition of the step is stored, iff s % learning_interval = 0 and
\* filled > batch_size, and it adds exactly 1 to learning_steps; no get_batch
\* call of this phase raises.
InitUpdate == tr.step % config.learning_interval = 0 /\ memory'.filled > config.batch_size

C16_ExactContinuation ==
    ( /\ args.resume
      /\ loaded # <<>>
      /\ tr.pc = "episodes"
      /\ tr.episode = 0
      /\ tr.epoch = tr.start_epoch )
    => /\ tr.epoch = loaded[1].epoch + 1
       /\ tr.best_return = loaded[1].best_return
       /\ memory = loaded[1].memory

\* C17: over the processes that follow one another on an output directory (an
\* interrupted one, then one resumed from the latest snapshot), checkpoint.pt
\* is only overwritten by an agent whose evaluation average is strictly
\* greater than that of the agent the file held.  (Stated as claimed; the
\* model violates it.)
CheckpointWritten ==
    /\ trace' # trace
    /\ trace' # <<>>
    /\ trace'[Len(trace')].ev = "save_checkpoint"

C17_CheckpointOnlyImproves ==
    [][ CheckpointWritten /\ disk.checkpoint # <<>> =>
          RatGreater(disk'.checkpoint_return[1], disk.checkpoint_return[1]) ]_vars

\* C18: in a memory that started empty, every index in [0, filled) has been
\* written by an add_sample call and holds what the latest call at that index
\* stored, and no index from filled on has been written; so every entry a
\* get_batch call returns is an inserted transition, never a zero-initialized
\* slot; and ptr = filled while filled < mem_size.
WrittenAt(i) == { n \in 1..NumAdds : (n - 1) % memory.mem_size = i }

C18_ValidAreWritten ==
    /\ \A i \in 0..(memory.mem_size - 1) :
          IF i < memory.filled
          THEN /\ WrittenAt(i) # {}
               /\ Slot(memory, i) =
                     StoredForm(inserted[LastWrite(NumAdds, memory.mem_size, i)])
          ELSE /\ WrittenAt(i) = {}
               /\ Slot(memory, i) =
                     [state |-> 0, action |-> 0, next_state |-> 0, reward |-> 0, done |-> 0]
    /\ memory.filled < memory.mem_size => memory.ptr = memory.filled
    /\ ret.kind = "batch" =>
          \A j \in DOMAIN ret.idx :
             /\ WrittenAt(ret.idx[j]) # {}
             /\ ret.reward[j] \in { Probe(m).reward : m \in Markers }

\* a batch was drawn from a memory of capacity 3 holding two transitions
C18_Witness ==
    /\ memory.mem_size = 3
    /\ memory.filled = 2
    /\ memory.ptr = 2
    /\ op.name = "get_batch"
    /\ ret.kind = "batch"
    /\ ret.idx = <<1>>
    /\ memory.rewards[2] = 0

\* C19: when no collaborator fails and every environment episode signals
\* done, train() terminates, and when it has ended it has run exactly
\* max(0, train_epochs - start_epoch + 1) epochs, each with exactly
\* episodes_per_epoch training episodes, and an evaluation pass of exactly
\* eval_episodes_per_epoch episodes in exactly the epochs e with
\* e % eval_every = 0; each step of a training episode stores exactly one
\* transition, of which only the last has done = 1.  (Stated as claimed; the
\* model violates it.)
CountOf(ev, e) == Len(SelectSeq(trace, LAMBDA x : x.ev = ev /\ x.epoch = e))

EpochsRun == Len(Events("epoch"))

TrainCompleted ==
    /\ tr.pc = "done"
    /\ EpochsRun = IF config.train_epochs >= tr.start_epoch
                   THEN config.train_epochs - tr.start_epoch + 1 ELSE 0
    /\ \A e \in tr.start_epoch..config.train_epochs :
          /\ CountOf("epoch", e) = 1
          /\ CountOf("train_episode", e) = config.episodes_per_epoch
          /\ CountOf("eval_episode", e) =
                IF e % config.eval_every = 0
                THEN config.eval_episodes_per_epoch ELSE 0
          /\ CountOf("eval_pass", e) = IF e % config.eval_every = 0 THEN 1 ELSE 0

\* train() has returned or has raised
TrainEnded == tr.pc = "done" \/ (tr.pc = "failed" /\ tr.fn # "none")

\* each step of a training episode stores one transition, and only the one
\* that ends the episode has done = 1
OneTransitionPerStep ==
    tr.pc = "train_step" =>
        /\ memory'.ptr = (memory.ptr + 1) % memory.mem_size
        /\ memory'.terminal[memory.ptr] = 1 <=> tr'.episode_finished

C19_Termination ==
    /\ [](TrainEnded => TrainCompleted)
    /\ [][OneTransitionPerStep]_vars
    /\ (tr.pc = "ready") ~> TrainEnded

\* what memory.states holds for the observation of a fresh env.reset()
ResetStored == { ScaleToUint8(process_state(f)) : f \in ResetFrames }

\* the index of the transition stored last
LastIndex(mem) == (mem.ptr + mem.mem_size - 1) % mem.mem_size

\* this step of the trainer stores a transition after an earlier one
StoresNext ==
    /\ run' = run
    /\ tr.pc \in {"init", "train_step"}
    /\ memory.filled > 0
    /\ memory'.ptr # memory.ptr

\* the step is the first one of a training episode
FirstOfEpisode == tr.pc = "train_step" /\ env.t = 0

\* C20 as stated: of two transitions the trainer stores one after the other,
\* over initialize_memory and all the training episodes, the later one's state
\* is the earlier one's next_state if the earlier has done = 0, and the
\* observation of a fresh reset if it has done = 1.  (The model violates it.)
C20_AsStated ==
    [][ StoresNext =>
          IF memory.terminal[LastIndex(memory)] = 0
          THEN memory'.states[memory.ptr] = memory.next_states[LastIndex(memory)]
          ELSE memory'.states[memory.ptr] \in ResetStored ]_vars

\* C20 (amended): the first transition of every training episode has the
\* observation of a fresh reset as its state, whatever was stored before it;
\* any other stored transition has the earlier one's next_state as its state
\* if the earlier has done = 0, and the observation of a fresh reset if the
\* earlier has done = 1.
C20_Consistency ==
    [][ StoresNext =>
          IF memory.terminal[LastIndex(memory)] = 0 /\ ~FirstOfEpisode
          THEN memory'.states[memory.ptr] = memory.next_states[LastIndex(memory)]
          ELSE memory'.states[memory.ptr] \in ResetStored ]_vars

\* the first training episode has stored its first transition, from a reset
\* observation, after initialize_memory left an episode unfinished
C20_Witness ==
    /\ ~args.resume
    /\ tr.fn = "train_episode"
    /\ agent.action_steps = 1
    /\ memory.mem_size = 3
    /\ memory.filled = 3
    /\ memory.terminal[0] = 1
    /\ memory.states[1] \in ResetStored
    /\ memory.terminal[1] = 0
    /\ memory.next_states[1] = 255
    /\ memory.states[2] = 0

====
